---- MODULE Spec2Model ----
(***************************************************************************)
(* Model of IdentifiableMongoDbPersistence (CRUD and paging over one       *)
(* MongoDB collection through a mongoose model), of MongoDbPersistence     *)
(* (open, close, clear) and of MongoDbConnectionResolver (resolve).        *)
(*                                                                         *)
(* JavaScript values are encoded as strings that keep their type:          *)
(*   "null"   null / undefined                                             *)
(*   "s:"     the empty string, "s:X" the string X                         *)
(*   "n:0"    the number 0                                                 *)
(* Objects (entities, stored documents, filters, partial updates) are      *)
(* functions from field names to values; NullObj is the null object.       *)
(***************************************************************************)
EXTENDS Integers, Sequences, FiniteSets, TLC

VARIABLES docs, gen, last, maxPageSize, page, reply, resolver, engine

vars == <<docs, gen, last, maxPageSize, page, reply, resolver, engine>>

(***************************************************************************)
(* Bounds of the model.                                                    *)
(***************************************************************************)
\* largest number of documents the collection may hold
MaxDocs == 2
\* largest number of keys drawn from the id generator
MaxGen == 2

(***************************************************************************)
(* Values.                                                                 *)
(***************************************************************************)
NULL == "null"

NullObj == [isNull |-> TRUE]

\* ids a caller may put into an entity: unset (null, "", 0) or a real key
UnsetIds == {NULL, "s:", "n:0"}

UserIds == {"s:X"}

Fields == {"key", "content"}

FieldValues(f) == IF f = "key" THEN {"a", "b"} ELSE {"c"}

\* all objects over a set of fields
Objects(D) == {o \in [D -> {"a", "b", "c"}] : \A f \in D : o[f] \in FieldValues(f)}

\* partial updates: any subset of the fields
PartialData == UNION {Objects(D) : D \in SUBSET Fields}

\* filters of the child class: all documents, or those with a given key
Filters == {o \in PartialData : DOMAIN o \subseteq {"key"}}

\* JavaScript truthiness of an id: null, undefined, "" and 0 are falsy
IsFalsy(v) == v \in {NULL, "s:", "n:0"}

(***************************************************************************)
(* IdGenerator.nextLong(): the n-th key drawn from the generator. The keys *)
(* are strings and pairwise different.                                     *)
(***************************************************************************)
nextLong(n) == <<"s:u1", "s:u2", "s:u3", "s:u4">>[n + 1]

GeneratedIds == {nextLong(n) : n \in 0..3}

(***************************************************************************)
(* lodash and object helpers.                                              *)
(***************************************************************************)
omit(obj, f) == [k \in DOMAIN obj \ {f} |-> obj[k]]

\* obj with the fields of upd assigned over it
assign(obj, upd) ==
    [k \in DOMAIN obj \cup DOMAIN upd |-> IF k \in DOMAIN upd THEN upd[k] ELSE obj[k]]

withId(obj, id) == assign(obj, [k \in {"_id"} |-> id])

(***************************************************************************)
(* The schema's toJSON transform: the stored _id is shown as id.           *)
(***************************************************************************)
toJSON(doc) ==
    [k \in (DOMAIN doc \ {"_id"}) \cup {"id"} |-> IF k = "id" THEN doc["_id"] ELSE doc[k]]

convertToPublic(value) == IF value # NullObj THEN toJSON(value) ELSE value

convertFromPublic(value) == value

convertFromPublicPartial(value) == convertFromPublic(value)

\* public entities: an id, a key and an optional content
Entities ==
    {assign(o, [k \in {"id"} |-> i]) :
        i \in UnsetIds \cup UserIds, o \in {p \in PartialData : "key" \in DOMAIN p}}

(***************************************************************************)
(* Errors. NullObj is "no error"; the driver reports DriverError when a    *)
(* call fails and DuplicateKey when an insert repeats a stored _id.        *)
(***************************************************************************)
DriverError == [code |-> "DriverError"]

DuplicateKey == [code |-> "DuplicateKey"]

ConnectionException(code, cause) == [code |-> code, cause |-> cause]

(***************************************************************************)
(* The mongoose model over the collection. The collection is the sequence  *)
(* of its documents in insertion order; every call is atomic and either    *)
(* fails as a whole (fail) or takes effect. Each operator yields           *)
(* [docs, err, doc]: the collection after the call, the error and the      *)
(* document handed to the callback.                                        *)
(***************************************************************************)
matches(doc, filter) ==
    \A k \in DOMAIN filter : k \in DOMAIN doc /\ doc[k] = filter[k]

find(d, filter) == SelectSeq(d, LAMBDA x : matches(x, filter))

count(d, filter) == Len(find(d, filter))

indexOf(d, id) ==
    IF \E i \in 1..Len(d) : d[i]["_id"] = id
    THEN CHOOSE i \in 1..Len(d) : d[i]["_id"] = id
    ELSE 0

findById(d, id) == IF indexOf(d, id) = 0 THEN NullObj ELSE d[indexOf(d, id)]

removeAt(d, i) == SubSeq(d, 1, i - 1) \o SubSeq(d, i + 1, Len(d))

driverFailed(d) == [docs |-> d, err |-> DriverError, doc |-> NullObj]

\* Model.create(doc): insert, refused when the _id is already stored
modelCreate(d, doc, fail) ==
    IF fail THEN driverFailed(d)
    ELSE IF indexOf(d, doc["_id"]) # 0
    THEN [docs |-> d, err |-> DuplicateKey, doc |-> NullObj]
    ELSE [docs |-> Append(d, doc), err |-> NullObj, doc |-> doc]

\* mutant: the upsert inserts without looking for a stored document
findOneAndUpdate_insertsAlways(d, id, update, upsert, fail) ==
    IF fail THEN driverFailed(d)
    ELSE IF upsert
    THEN [docs |-> Append(d, withId(update, id)), err |-> NullObj,
          doc |-> withId(update, id)]
    ELSE [docs |-> d, err |-> NullObj, doc |-> findById(d, id)]

\* mutant: the stored document is replaced by the update, not assigned over
findOneAndUpdate_overwrites(d, id, update, upsert, fail) ==
    IF fail THEN driverFailed(d)
    ELSE IF indexOf(d, id) # 0
    THEN [docs |-> [d EXCEPT ![indexOf(d, id)] = withId(update, id)],
          err |-> NullObj, doc |-> withId(update, id)]
    ELSE IF upsert
    THEN [docs |-> Append(d, withId(update, id)), err |-> NullObj,
          doc |-> withId(update, id)]
    ELSE [docs |-> d, err |-> NullObj, doc |-> NullObj]

\* Model.findOneAndUpdate({_id: id}, update, {new: true, upsert: upsert}):
\* mongoose turns the top-level keys of an update without operators into
\* a $set, so the fields of update are assigned over the stored document;
\* an upsert inserts the filter's _id with the fields of update
findOneAndUpdate(d, id, update, upsert, fail) ==
    IF fail THEN driverFailed(d)
    ELSE IF indexOf(d, id) # 0
    THEN LET i == indexOf(d, id)
             new == assign(d[i], update)
         IN [docs |-> [d EXCEPT ![i] = new], err |-> NullObj, doc |-> new]
    ELSE IF upsert
    THEN LET new == withId(update, id)
         IN [docs |-> Append(d, new), err |-> NullObj, doc |-> new]
    ELSE [docs |-> d, err |-> NullObj, doc |-> NullObj]

\* mutant: the update is sent with upsert
findByIdAndUpdate_upserts(d, id, update, fail) ==
    findOneAndUpdate(d, id, update, TRUE, fail)

\* Model.findByIdAndUpdate(id, update, {new: true})
findByIdAndUpdate(d, id, update, fail) == findOneAndUpdate(d, id, update, FALSE, fail)

\* mutant: the first document is removed instead of the one found
findByIdAndRemove_first(d, id, fail) ==
    IF fail THEN driverFailed(d)
    ELSE IF indexOf(d, id) = 0
    THEN [docs |-> d, err |-> NullObj, doc |-> NullObj]
    ELSE [docs |-> Tail(d), err |-> NullObj, doc |-> d[indexOf(d, id)]]

\* Model.findByIdAndRemove(id): the callback gets the removed document
findByIdAndRemove(d, id, fail) ==
    IF fail THEN driverFailed(d)
    ELSE IF indexOf(d, id) = 0
    THEN [docs |-> d, err |-> NullObj, doc |-> NullObj]
    ELSE [docs |-> removeAt(d, indexOf(d, id)), err |-> NullObj, doc |-> d[indexOf(d, id)]]

\* Model.remove(filter): removes every matching document
modelRemove(d, filter, fail) ==
    IF fail THEN driverFailed(d)
    ELSE [docs |-> SelectSeq(d, LAMBDA x : ~matches(x, filter)),
          err |-> NullObj, doc |-> NullObj]

(***************************************************************************)
(* The handlers of IdentifiableMongoDbPersistence. Each yields what the    *)
(* call leaves behind: the collection, the generator's count, whether the  *)
(* callback was invoked and with what, and whether a TypeError was thrown  *)
(* (the call of an absent callback). cb tells whether the caller passed a  *)
(* callback, fail whether the driver call fails; driver counts the driver  *)
(* calls the handler has issued.                                           *)
(***************************************************************************)
outcome(d, g, called, err, result, thrown) ==
    [docs |-> d, gen |-> g, called |-> called, err |-> err, result |-> result,
     thrown |-> thrown, driver |-> 0]

\* the outcome of a handler that got as far as its driver call
issued(o) == [o EXCEPT !.driver = 1]

\* callback(err, result) where the callback is used without a check
invoke(d, g, cb, err, result) ==
    IF cb THEN outcome(d, g, TRUE, err, result, FALSE)
    ELSE outcome(d, g, FALSE, NullObj, NullObj, TRUE)

\* if (callback) callback(err, result)
invokeIfGiven(d, g, cb, err, result) ==
    IF cb THEN outcome(d, g, TRUE, err, result, FALSE)
    ELSE outcome(d, g, FALSE, NullObj, NullObj, FALSE)

\* mutant: the generator is never asked
assignedId_keepsUnset(item, g) == item["id"]

\* item.id || IdGenerator.nextLong()
assignedId(item, g) == IF IsFalsy(item["id"]) THEN nextLong(g) ELSE item["id"]

genAfter(item, g) == IF IsFalsy(item["id"]) THEN g + 1 ELSE g

create(d, g, item, cb, fail) ==
    IF item = NullObj THEN invoke(d, g, cb, NullObj, NullObj)
    ELSE LET newItem == convertFromPublic(withId(omit(item, "id"), assignedId(item, g)))
             r == modelCreate(d, newItem, fail)
         IN issued(invoke(r.docs, genAfter(item, g), cb, r.err, convertToPublic(r.doc)))

set(d, g, item, cb, fail) ==
    IF item = NullObj THEN invokeIfGiven(d, g, cb, NullObj, NullObj)
    ELSE LET newItem == convertFromPublic(withId(omit(item, "id"), assignedId(item, g)))
             r == findOneAndUpdate(d, newItem["_id"], newItem, TRUE, fail)
         IN issued(invokeIfGiven(r.docs, genAfter(item, g), cb, r.err,
                                 convertToPublic(r.doc)))

\* an update that sends an entity without id to the driver
update_nullIdToDriver(d, g, item, cb, fail) ==
    IF item = NullObj THEN invokeIfGiven(d, g, cb, NullObj, NullObj)
    ELSE LET r == findByIdAndUpdate(d, item["id"], convertFromPublic(omit(item, "id")), fail)
         IN issued(invokeIfGiven(r.docs, g, cb, r.err, convertToPublic(r.doc)))

update(d, g, item, cb, fail) ==
    IF item = NullObj \/ item["id"] = NULL THEN invokeIfGiven(d, g, cb, NullObj, NullObj)
    ELSE LET newItem == convertFromPublic(omit(item, "id"))
             r == findByIdAndUpdate(d, item["id"], newItem, fail)
         IN issued(invokeIfGiven(r.docs, g, cb, r.err, convertToPublic(r.doc)))

\* mutant: the partial data replaces the stored record
updatePartially_replaces(d, g, id, data, cb, fail) ==
    IF data = NullObj \/ id = NULL THEN invokeIfGiven(d, g, cb, NullObj, NullObj)
    ELSE LET r == findOneAndUpdate_overwrites(d, id, convertFromPublicPartial(data),
                                              FALSE, fail)
         IN issued(invokeIfGiven(r.docs, g, cb, r.err, convertToPublic(r.doc)))

updatePartially(d, g, id, data, cb, fail) ==
    IF data = NullObj \/ id = NULL THEN invokeIfGiven(d, g, cb, NullObj, NullObj)
    ELSE LET newItem == convertFromPublicPartial(data)
             r == findByIdAndUpdate(d, id, newItem, fail)
         IN issued(invokeIfGiven(r.docs, g, cb, r.err, convertToPublic(r.doc)))

deleteById(d, g, id, cb, fail) ==
    LET r == findByIdAndRemove(d, id, fail)
    IN issued(invokeIfGiven(r.docs, g, cb, r.err, convertToPublic(r.doc)))

deleteByFilter(d, g, filter, cb, fail) ==
    LET r == modelRemove(d, filter, fail)
    IN issued(invokeIfGiven(r.docs, g, cb, r.err, NullObj))

getOneById(d, g, id, fail) ==
    LET err == IF fail THEN DriverError ELSE NullObj
        item == IF fail THEN NullObj ELSE findById(d, id)
    IN issued(outcome(d, g, TRUE, err, convertToPublic(item), FALSE))

\* MongoDbPersistence.clear with a collection bound
clear(d, g, cb, fail) ==
    LET r == modelRemove(d, <<>>, fail)
        err == IF r.err # NullObj THEN ConnectionException("CONNECT_FAILED", r.err)
               ELSE r.err
    IN issued(invokeIfGiven(r.docs, g, cb, err, NullObj))

(***************************************************************************)
(* State.                                                                  *)
(*   docs         the documents of the collection, in insertion order      *)
(*   gen          how many keys the id generator has handed out            *)
(*   last         the last completed CRUD call: its arguments, what the    *)
(*                callback received and the collection before the call     *)
(*   maxPageSize  _maxPageSize                                             *)
(*   page         the getPageByFilter call in progress                     *)
(*   reply        the callbacks the getPageByFilter call has made          *)
(*   resolver     the MongoDbConnectionResolver.resolve call in progress   *)
(*   engine       the connection, the bound collection and the lifecycle   *)
(*                call (open, close, clear) in progress                    *)
(***************************************************************************)
DefaultMaxPageSize == 100

NoCall ==
    [op |-> "none", item |-> NullObj, id |-> NULL, data |-> NullObj, cb |-> TRUE,
     fail |-> FALSE, called |-> FALSE, err |-> NullObj, result |-> NullObj,
     thrown |-> FALSE, driver |-> 0, pre |-> <<>>]

NoPage ==
    [stage |-> "idle", filter |-> <<>>, skip |-> <<>>, take |-> <<>>, total |-> FALSE,
     items |-> <<>>, fault |-> "none", skipSent |-> -1, limit |-> 0, mps |-> 0,
     queries |-> <<>>]

\* no resolve call in progress; connections and credential are the closure
\* variables of resolve, <<>> while undefined or null
NoResolve ==
    [stage |-> "idle", connections |-> <<>>, credential |-> <<>>, completed |-> <<>>,
     calls |-> <<>>, thrown |-> FALSE]

\* no lifecycle call in progress; driver is what the driver call of the
\* lifecycle call did and err the error the call ended with; method, uri and
\* settings are the connect call open made
NoLifecycle ==
    [op |-> "none", cb |-> FALSE, stage |-> "idle", wasOpen |-> FALSE, connects |-> 0,
     removes |-> 0, driver |-> "none", err |-> NullObj, calls |-> <<>>,
     logged |-> <<>>, thrown |-> FALSE, pre |-> <<>>,
     method |-> "none", uri |-> "null", settings |-> <<>>]

\* the engine after new MongoDbPersistence(collection, schema); with a
\* collection and a schema it stands for an IdentifiableMongoDbPersistence,
\* whose constructor accepts nothing less
Constructed(collection, schema) ==
    [readyState |-> 0, collection |-> collection, schema |-> schema,
     model |-> (collection # NULL /\ schema),
     identifiable |-> (collection # NULL /\ schema),
     options |-> <<>>, call |-> NoLifecycle]

Init ==
    /\ docs = <<>>
    /\ gen = 0
    /\ last = NoCall
    /\ maxPageSize = DefaultMaxPageSize
    /\ page = NoPage
    /\ reply = <<>>
    /\ resolver = NoResolve
    /\ engine = Constructed("s:dummies", TRUE)

\* ids a caller can name: none, one of its own, or one it got from the generator
KnownIds == {NULL} \cup UserIds \cup {nextLong(n) : n \in 0..(gen - 1)}

\* the call is recorded and its effect on the collection applied
Complete(op, item, id, data, cb, fail, o) ==
    /\ Len(o.docs) <= MaxDocs
    /\ o.gen <= MaxGen
    /\ docs' = o.docs
    /\ gen' = o.gen
    /\ last' = [op |-> op, item |-> item, id |-> id, data |-> data, cb |-> cb,
                fail |-> fail, called |-> o.called, err |-> o.err,
                result |-> o.result, thrown |-> o.thrown, driver |-> o.driver,
                pre |-> docs]
    /\ UNCHANGED <<maxPageSize, page, reply, resolver, engine>>

\* In Spec every caller passes a callback and the driver executes every call.
Create ==
    \E item \in Entities \cup {NullObj} :
        Complete("create", item, NULL, NullObj, TRUE, FALSE,
                 create(docs, gen, item, TRUE, FALSE))

Set ==
    \E item \in Entities \cup {NullObj} :
        Complete("set", item, NULL, NullObj, TRUE, FALSE,
                 set(docs, gen, item, TRUE, FALSE))

Update ==
    \E item \in Entities \cup {NullObj} :
        Complete("update", item, NULL, NullObj, TRUE, FALSE,
                 update(docs, gen, item, TRUE, FALSE))

UpdatePartially ==
    \E id \in KnownIds, data \in PartialData \cup {NullObj} :
        Complete("updatePartially", NullObj, id, data, TRUE, FALSE,
                 updatePartially(docs, gen, id, data, TRUE, FALSE))

DeleteById ==
    \E id \in KnownIds :
        Complete("deleteById", NullObj, id, NullObj, TRUE, FALSE,
                 deleteById(docs, gen, id, TRUE, FALSE))

DeleteByFilter ==
    \E filter \in Filters :
        Complete("deleteByFilter", NullObj, NULL, filter, TRUE, FALSE,
                 deleteByFilter(docs, gen, filter, TRUE, FALSE))

Clear ==
    Complete("clear", NullObj, NULL, NullObj, TRUE, FALSE,
             clear(docs, gen, TRUE, FALSE))

GetOneById ==
    \E id \in KnownIds :
        Complete("getOneById", NullObj, id, NullObj, TRUE, FALSE,
                 getOneById(docs, gen, id, FALSE))

Next ==
    \/ Create
    \/ Set
    \/ Update
    \/ UpdatePartially
    \/ DeleteById
    \/ DeleteByFilter
    \/ Clear
    \/ GetOneById

Spec == Init /\ [][Next]_vars

(***************************************************************************)
(* getPageByFilter. An optional number is <<>> when absent and <<n>> when  *)
(* given. PagingParams holds an optional skip, an optional take and the    *)
(* total flag; a null paging stands for new PagingParams().                *)
(***************************************************************************)
Skips == {<<>>, <<0>>, <<1>>}

Takes == {<<>>, <<0>>, <<1>>, <<2>>}

Pagings == [skip : Skips, take : Takes, total : BOOLEAN] \cup {NullObj}

\* paging = paging || new PagingParams()
orDefault(paging) ==
    IF paging = NullObj THEN [skip |-> <<>>, take |-> <<>>, total |-> FALSE] ELSE paging

\* PagingParams.getSkip(minSkip)
getSkip(paging, minSkip) ==
    IF paging.skip = <<>> THEN minSkip
    ELSE IF paging.skip[1] < minSkip THEN minSkip
    ELSE paging.skip[1]

\* PagingParams.getTake(maxTake)
getTake(paging, maxTake) ==
    IF paging.take = <<>> THEN maxTake
    ELSE IF paging.take[1] < 0 THEN 0
    ELSE IF paging.take[1] > maxTake THEN maxTake
    ELSE paging.take[1]

\* statement.skip(n): the documents after the first n
skipped(s, n) == SubSeq(s, n + 1, Len(s))

\* statement.limit(n): the first n documents; a limit of 0 is no limit
limited(s, n) == IF n = 0 \/ n >= Len(s) THEN s ELSE SubSeq(s, 1, n)

\* mutant: the limit is applied before the skip
execFind_limitFirst(d, filter, skip, take, fail) ==
    IF fail THEN [err |-> DriverError, items |-> <<>>]
    ELSE [err |-> NullObj,
          items |-> IF skip >= 0 THEN skipped(limited(find(d, filter), take), skip)
                    ELSE limited(find(d, filter), take)]

\* _model.find(filter) [.skip(skip)] .limit(take) .exec(...)
execFind(d, filter, skip, take, fail) ==
    IF fail THEN [err |-> DriverError, items |-> <<>>]
    ELSE [err |-> NullObj,
          items |-> limited(IF skip >= 0 THEN skipped(find(d, filter), skip)
                            ELSE find(d, filter), take)]

\* _model.count(filter, ...)
execCount(d, filter, fail) ==
    IF fail THEN [err |-> DriverError, count |-> 0]
    ELSE [err |-> NullObj, count |-> count(d, filter)]

\* _.map(items, this.convertToPublic)
mapToPublic(items) == [i \in 1..Len(items) |-> convertToPublic(items[i])]

\* new DataPage<T>(items, total)
DataPage(items, total) == [data |-> items, total |-> total]

\* callback(err, page)
called(err, p) == [err |-> err, page |-> p]

\* the call up to statement.exec(...): the paging parameters are read
\* against the max page size of that moment, the statement is built and
\* sent. The call in progress keeps its arguments, the skip and limit sent
\* (skipSent < 0: no skip was set), the items fetched, which query failed
\* (fault) and the queries issued so far, in order.
getPageByFilter(mps, filter, paging) ==
    LET pg == orDefault(paging)
        skip == getSkip(pg, -1)
        take == getTake(pg, mps)
        pagingEnabled == pg.total
    IN [stage |-> "find", filter |-> filter, skip |-> pg.skip, take |-> pg.take,
        total |-> pagingEnabled, items |-> <<>>, fault |-> "none",
        skipSent |-> skip, limit |-> take, mps |-> mps, queries |-> <<"find">>]

\* mutant: the count query is issued whatever the page query gave and
\* whether or not a total was asked for
pageQuery_countsAlways(d, pg, rp, fail) ==
    LET q == execFind(d, pg.filter, pg.skipSent, pg.limit, fail)
        items == mapToPublic(q.items)
    IN IF q.err # NullObj
       THEN [page |-> [pg EXCEPT !.stage = "done", !.fault = "find",
                                 !.queries = Append(@, "count")],
             reply |-> Append(rp, called(q.err, NullObj))]
       ELSE IF pg.total
       THEN [page |-> [pg EXCEPT !.stage = "count", !.items = items,
                                 !.queries = Append(@, "count")],
             reply |-> rp]
       ELSE [page |-> [pg EXCEPT !.stage = "done", !.items = items,
                                 !.queries = Append(@, "count")],
             reply |-> Append(rp, called(NullObj, DataPage(items, <<>>)))]

\* the callback of the page query: an error goes to the callback, a page
\* without total goes to the callback, and a page with total issues the
\* count query and waits for it
pageQuery(d, pg, rp, fail) ==
    LET q == execFind(d, pg.filter, pg.skipSent, pg.limit, fail)
        items == mapToPublic(q.items)
    IN IF q.err # NullObj
       THEN [page |-> [pg EXCEPT !.stage = "done", !.fault = "find"],
             reply |-> Append(rp, called(q.err, NullObj))]
       ELSE IF pg.total
       THEN [page |-> [pg EXCEPT !.stage = "count", !.items = items,
                                 !.queries = Append(@, "count")],
             reply |-> rp]
       ELSE [page |-> [pg EXCEPT !.stage = "done", !.items = items],
             reply |-> Append(rp, called(NullObj, DataPage(items, <<>>)))]

\* mutant: the total is the number of items of the page
pageCount_totalOfPage(d, pg, rp, fail) ==
    IF fail
    THEN [page |-> [pg EXCEPT !.stage = "done", !.fault = "count"],
          reply |-> Append(rp, called(DriverError, NullObj))]
    ELSE [page |-> [pg EXCEPT !.stage = "done"],
          reply |-> Append(rp, called(NullObj, DataPage(pg.items, <<Len(pg.items)>>)))]

\* mutant: the return after the error callback is missing
pageCount_noReturn(d, pg, rp, fail) ==
    LET c == execCount(d, pg.filter, fail)
        ok == called(NullObj, DataPage(pg.items, <<c.count>>))
    IN IF c.err # NullObj
       THEN [page |-> [pg EXCEPT !.stage = "done", !.fault = "count"],
             reply |-> rp \o <<called(c.err, NullObj), ok>>]
       ELSE [page |-> [pg EXCEPT !.stage = "done"], reply |-> Append(rp, ok)]

\* the callback of the count query
pageCount(d, pg, rp, fail) ==
    LET c == execCount(d, pg.filter, fail)
    IN IF c.err # NullObj
       THEN [page |-> [pg EXCEPT !.stage = "done", !.fault = "count"],
             reply |-> Append(rp, called(c.err, NullObj))]
       ELSE [page |-> [pg EXCEPT !.stage = "done"],
             reply |-> Append(rp, called(NullObj, DataPage(pg.items, <<c.count>>)))]

\* IdentifiableMongoDbPersistence.configure: options.max_page_size, when the
\* configuration has it, becomes _maxPageSize
configure(mps, maxPageSizeOption) ==
    IF maxPageSizeOption = <<>> THEN mps ELSE maxPageSizeOption[1]

MaxPageSizeOptions == {<<>>, <<1>>, <<2>>}

Configure ==
    /\ page.stage # "done"
    /\ \E o \in MaxPageSizeOptions : maxPageSize' = configure(maxPageSize, o)
    /\ UNCHANGED <<docs, gen, last, page, reply, resolver, engine>>

GetPageByFilter ==
    /\ page.stage = "idle"
    /\ \E filter \in Filters, paging \in Pagings :
           page' = getPageByFilter(maxPageSize, filter, paging)
    /\ reply' = <<>>
    /\ UNCHANGED <<docs, gen, last, maxPageSize, resolver, engine>>

PageQueryCompleted ==
    /\ page.stage = "find"
    /\ \E fail \in BOOLEAN :
           LET o == pageQuery(docs, page, reply, fail)
           IN /\ page' = o.page
              /\ reply' = o.reply
    /\ UNCHANGED <<docs, gen, last, maxPageSize, resolver, engine>>

CountCompleted ==
    /\ page.stage = "count"
    /\ \E fail \in BOOLEAN :
           LET o == pageCount(docs, page, reply, fail)
           IN /\ page' = o.page
              /\ reply' = o.reply
    /\ UNCHANGED <<docs, gen, last, maxPageSize, resolver, engine>>

\* the callback returns: the call is over
PageReturned ==
    /\ page.stage = "done"
    /\ page' = NoPage
    /\ reply' = <<>>
    /\ UNCHANGED <<docs, gen, last, maxPageSize, resolver, engine>>

\* calls of other callers that run while the page call is in progress
\* or between page calls; their callbacks are not observed
PageEntities == {e \in Entities : e["id"] \in {NULL, "s:X"} /\ "content" \notin DOMAIN e}

Concurrent(o) ==
    /\ page.stage # "done"
    /\ Len(o.docs) <= MaxDocs
    /\ o.gen <= MaxGen
    /\ docs' = o.docs
    /\ gen' = o.gen
    /\ UNCHANGED <<last, maxPageSize, page, reply, resolver, engine>>

ConcurrentCreate == \E item \in PageEntities : Concurrent(create(docs, gen, item, TRUE, FALSE))

ConcurrentSet == \E item \in PageEntities : Concurrent(set(docs, gen, item, TRUE, FALSE))

ConcurrentDeleteById == \E id \in KnownIds : Concurrent(deleteById(docs, gen, id, TRUE, FALSE))

ConcurrentDeleteByFilter ==
    \E filter \in Filters : Concurrent(deleteByFilter(docs, gen, filter, TRUE, FALSE))

ConcurrentClear == Concurrent(clear(docs, gen, TRUE, FALSE))

NextPage ==
    \/ Configure
    \/ GetPageByFilter
    \/ PageQueryCompleted
    \/ CountCompleted
    \/ PageReturned
    \/ ConcurrentCreate
    \/ ConcurrentSet
    \/ ConcurrentDeleteById
    \/ ConcurrentDeleteByFilter
    \/ ConcurrentClear

SpecPage == Init /\ [][NextPage]_vars

(***************************************************************************)
(* Claims about the CRUD operations, checked under Spec.                   *)
(***************************************************************************)
Ids(d) == {d[i]["_id"] : i \in 1..Len(d)}

Range(d) == {d[i] : i \in 1..Len(d)}

\* what a getOneById(id) issued in the current state hands to its callback
Following(id) == getOneById(docs, gen, id, FALSE)

\* C1: create(e) with e.id unset reports no error and returns e with a
\* non-empty generated id; a getOneById with that id issued next returns
\* the same entity, e plus the assigned id.
C1_CreateAssignsIdAndRoundTrips ==
    (last.op = "create" /\ last.item # NullObj /\ last.item["id"] = NULL) =>
        /\ last.err = NullObj
        /\ last.result # NullObj
        /\ last.result["id"] \in GeneratedIds
        /\ ~IsFalsy(last.result["id"])
        /\ omit(last.result, "id") = omit(last.item, "id")
        /\ Following(last.result["id"]).err = NullObj
        /\ Following(last.result["id"]).result =
               [last.item EXCEPT !["id"] = last.result["id"]]

C1_Witness ==
    /\ last.op = "create"
    /\ last.item # NullObj
    /\ last.item["id"] = NULL
    /\ "content" \in DOMAIN last.item
    /\ last.result # NullObj
    /\ Len(docs) = 2

C3_DeleteByIdRemovesOne ==
    last.op = "deleteById" =>
        LET old == findById(last.pre, last.id)
        IN /\ last.err = NullObj
           /\ last.result = convertToPublic(old)
           /\ Following(last.id).result = NullObj
           /\ Following(last.id).err = NullObj
           /\ deleteById(docs, gen, last.id, TRUE, FALSE).result = NullObj
           /\ deleteById(docs, gen, last.id, TRUE, FALSE).err = NullObj
           /\ deleteById(docs, gen, last.id, TRUE, FALSE).docs = docs
           /\ IF old = NullObj
              THEN /\ last.result = NullObj
                   /\ docs = last.pre
              ELSE /\ last.result["id"] = last.id
                   /\ omit(last.result, "id") = omit(old, "_id")
                   /\ Len(docs) = Len(last.pre) - 1
                   /\ Range(docs) = Range(last.pre) \ {old}
                   /\ docs = SelectSeq(last.pre, LAMBDA x : x # old)

C3_Witness ==
    /\ last.op = "deleteById"
    /\ findById(last.pre, last.id) # NullObj
    /\ Len(last.pre) = 2
    /\ Len(docs) = 1

\* the second deleteById of the same id
C3_WitnessAgain ==
    /\ last.op = "deleteById"
    /\ last.id # NULL
    /\ findById(last.pre, last.id) = NullObj
    /\ Len(docs) = 1

\* C4: update(item) whose id matches no stored record reports null and no
\* error and leaves the collection as it was; no update adds a record.
C4_UpdateMissingIsNoop ==
    last.op = "update" =>
        /\ Ids(docs) = Ids(last.pre)
        /\ Len(docs) = Len(last.pre)
        /\ (last.item # NullObj /\ findById(last.pre, last.item["id"]) = NullObj) =>
               /\ last.called
               /\ last.err = NullObj
               /\ last.result = NullObj
               /\ docs = last.pre

C4_Witness ==
    /\ last.op = "update"
    /\ last.item # NullObj
    /\ ~IsFalsy(last.item["id"])
    /\ findById(last.pre, last.item["id"]) = NullObj
    /\ Len(docs) = 2

\* C5: updatePartially(id, data) on a stored record gives exactly the
\* fields named in data the supplied values and leaves the record's other
\* fields, its id, its place and every other record as they were; it
\* returns the record as written.
C5_UpdatePartiallyFrame ==
    (/\ last.op = "updatePartially"
     /\ last.data # NullObj
     /\ findById(last.pre, last.id) # NullObj) =>
        LET old == findById(last.pre, last.id)
            new == findById(docs, last.id)
        IN /\ last.err = NullObj
           /\ new # NullObj
           /\ DOMAIN new = DOMAIN old \cup DOMAIN last.data
           /\ \A f \in DOMAIN last.data : new[f] = last.data[f]
           /\ \A f \in DOMAIN old \ DOMAIN last.data : new[f] = old[f]
           /\ new["_id"] = last.id
           /\ Len(docs) = Len(last.pre)
           /\ \A i \in 1..Len(last.pre) :
                  IF last.pre[i]["_id"] = last.id THEN docs[i] = new
                  ELSE docs[i] = last.pre[i]
           /\ last.result # NullObj
           /\ last.result["id"] = last.id
           /\ omit(last.result, "id") = omit(new, "_id")

\* one field changed, the other kept, next to a second record
C5_Witness ==
    /\ last.op = "updatePartially"
    /\ last.data # NullObj
    /\ findById(last.pre, last.id) # NullObj
    /\ DOMAIN last.data = {"key"}
    /\ findById(last.pre, last.id)["key"] # last.data["key"]
    /\ "content" \in DOMAIN findById(last.pre, last.id)
    /\ Len(docs) = 2

C7_IdAssignmentPolicy ==
    /\ \A i \in 1..Len(docs) : "id" \notin DOMAIN docs[i]
    /\ (last.op \in {"create", "set"} /\ last.item # NullObj /\ last.err = NullObj) =>
           IF last.item["id"] \notin {NULL, "s:"}
           THEN /\ last.result["id"] = last.item["id"]
                /\ findById(docs, last.item["id"]) # NullObj
           ELSE /\ last.result["id"] = nextLong(gen - 1)
                /\ last.result["id"] \notin {nextLong(n) : n \in 0..(gen - 2)}
                /\ last.result["id"] \notin Ids(last.pre)
                /\ findById(docs, last.result["id"]) # NullObj

(***************************************************************************)
(* Claims about getPageByFilter, checked under SpecPage.                   *)
(***************************************************************************)
Min(a, b) == IF a <= b THEN a ELSE b

Max(a, b) == IF a >= b THEN a ELSE b

\* the number of stored documents a filter matches
Matching(filter) ==
    Cardinality({i \in 1..Len(docs) :
                    \A k \in DOMAIN filter : k \in DOMAIN docs[i] /\ docs[i][k] = filter[k]})

\* C8: a getPageByFilter call with paging.total = true that succeeds hands
\* its callback a page whose total is the number of stored documents that
\* match the filter, whatever skip and take are and however many items
\* the page holds.
C8_TotalIsMatchCount ==
    (page.stage = "done" /\ page.total /\ page.fault = "none") =>
        /\ Len(reply) = 1
        /\ reply[1].err = NullObj
        /\ reply[1].page # NullObj
        /\ reply[1].page.total = <<Matching(page.filter)>>
        /\ reply[1].page.data = page.items

\* a total larger than the page, under a filter that leaves documents out
C8_Witness ==
    /\ page.stage = "done"
    /\ page.total
    /\ page.fault = "none"
    /\ page.filter # <<>>
    /\ Matching(page.filter) = 1
    /\ Len(docs) = 2
    /\ page.skip = <<1>>
    /\ reply[1].page.data = <<>>
    /\ reply[1].page.total = <<1>>

\* the page query of a call has just run and did not fail
PageQueried == page.stage = "find" /\ page'.stage # "find" /\ page'.fault = "none"

SkipGiven == IF page'.skip = <<>> THEN 0 ELSE page'.skip[1]

C10_CountFailureAborts ==
    /\ page.stage = "count" => reply = <<>>
    /\ (page.stage = "done" /\ page.fault = "count") =>
           /\ page.total
           /\ Len(reply) = 1
           /\ reply[1].err = DriverError
           /\ reply[1].page = NullObj

\* the count query failed after a page query that fetched items
C10_Witness ==
    /\ page.stage = "done"
    /\ page.fault = "count"
    /\ Len(page.items) = 2
    /\ reply # <<>>

(***************************************************************************)
(* MongoDbConnectionResolver. ConnectionParams, CredentialParams and       *)
(* ConfigParams are string maps: sequences of <<key, value>> pairs with    *)
(* distinct keys, in insertion order. Values are plain strings; "" is a    *)
(* stored null or empty value, and a getter returns NULL for a key that is *)
(* absent or has no value. A nullable object or list is <<>> when null     *)
(* and <<x>> otherwise.                                                    *)
(***************************************************************************)
\* largest number of connection descriptors the connection resolver yields
MaxConnections == 2

hasKey(m, k) == \E i \in 1..Len(m) : m[i][1] = k

\* StringValueMap.get: this[key] || null
get(m, k) ==
    IF \E i \in 1..Len(m) : m[i][1] = k /\ m[i][2] # ""
    THEN m[CHOOSE i \in 1..Len(m) : m[i][1] = k][2]
    ELSE NULL

\* StringValueMap.put: an existing key keeps its place
put(m, k, v) ==
    IF hasKey(m, k)
    THEN LET i == CHOOSE j \in 1..Len(m) : m[j][1] = k
         IN SubSeq(m, 1, i - 1) \o <<<<k, v>>>> \o SubSeq(m, i + 1, Len(m))
    ELSE Append(m, <<k, v>>)

RECURSIVE append(_, _)
append(m, other) ==
    IF other = <<>> THEN m
    ELSE append(put(m, Head(other)[1], Head(other)[2]), Tail(other))

RECURSIVE fromMaps(_)
fromMaps(maps) ==
    IF maps = <<>> THEN <<>>
    ELSE append(fromMaps(SubSeq(maps, 1, Len(maps) - 1)), maps[Len(maps)])

mergeConfigs(connections) == fromMaps(connections)

\* the map that ignores the credential
override_ignores(m, credential) == m

\* ConfigParams.override(credential): the argument's values win; null adds nothing
override(m, credential) ==
    IF credential = <<>> THEN m ELSE fromMaps(<<m, credential[1]>>)

remove(m, k) == SelectSeq(m, LAMBDA p : p[1] # k)

\* IntegerConverter.toInteger over the port values of the model: 0 when the
\* value is missing
toInteger(v) ==
    CASE v = "27017" -> 27017
      [] v = "27018" -> 27018
      [] OTHER -> 0

getUri(connection) == get(connection, "uri")

getHost(connection) == get(connection, "host")

getPort(connection) == toInteger(get(connection, "port"))

getUsername(credential) == get(credential, "username")

getPassword(credential) == get(credential, "password")

\* a falsy string: null or empty
IsEmpty(v) == v = NULL \/ v = ""

ConfigException(code) == [type |-> "ConfigException", code |-> code]

\* validation that takes a uri entry without a value for a literal uri
validateConnection_emptyUriPasses(connection) ==
    IF hasKey(connection, "uri") THEN NullObj
    ELSE IF getHost(connection) = NULL THEN ConfigException("NO_HOST")
    ELSE IF getPort(connection) = 0 THEN ConfigException("NO_PORT")
    ELSE IF get(connection, "database") = NULL THEN ConfigException("NO_DATABASE")
    ELSE NullObj

\* validation that looks at the port before the host
validateConnection_portFirst(connection) ==
    IF getUri(connection) # NULL THEN NullObj
    ELSE IF getPort(connection) = 0 THEN ConfigException("NO_PORT")
    ELSE IF getHost(connection) = NULL THEN ConfigException("NO_HOST")
    ELSE IF get(connection, "database") = NULL THEN ConfigException("NO_DATABASE")
    ELSE NullObj

validateConnection(connection) ==
    IF getUri(connection) # NULL THEN NullObj
    ELSE IF getHost(connection) = NULL THEN ConfigException("NO_HOST")
    ELSE IF getPort(connection) = 0 THEN ConfigException("NO_PORT")
    ELSE IF get(connection, "database") = NULL THEN ConfigException("NO_DATABASE")
    ELSE NullObj

RECURSIVE firstError(_)
firstError(connections) ==
    IF connections = <<>> THEN NullObj
    ELSE IF validateConnection(Head(connections)) # NullObj
         THEN validateConnection(Head(connections))
         ELSE firstError(Tail(connections))

\* validation that accepts an empty list
validateConnections_acceptsEmpty(connections) ==
    IF connections = <<>> THEN ConfigException("NO_CONNECTION")
    ELSE firstError(connections[1])

validateConnections(connections) ==
    IF connections = <<>> \/ Len(connections[1]) = 0
    THEN ConfigException("NO_CONNECTION")
    ELSE firstError(connections[1])

\* the last literal uri of the list
RECURSIVE lastUri(_)
lastUri(connections) ==
    IF connections = <<>> THEN NULL
    ELSE IF ~IsEmpty(getUri(connections[Len(connections)]))
         THEN getUri(connections[Len(connections)])
         ELSE lastUri(SubSeq(connections, 1, Len(connections) - 1))

\* the first literal uri of the list, NULL when there is none
RECURSIVE firstUri(_)
firstUri(connections) ==
    IF connections = <<>> THEN NULL
    ELSE IF ~IsEmpty(getUri(Head(connections))) THEN getUri(Head(connections))
    ELSE firstUri(Tail(connections))

\* the host list in reverse order
RECURSIVE hostsOf_reversed(_, _)
hostsOf_reversed(connections, hosts) ==
    IF connections = <<>> THEN hosts
    ELSE hostsOf_reversed(SubSeq(connections, 1, Len(connections) - 1),
             (IF hosts # "" THEN hosts \o "," ELSE hosts)
             \o getHost(connections[Len(connections)]) \o ":"
             \o ToString(getPort(connections[Len(connections)])))

\* hosts += host + ':' + port; getPort never returns null
RECURSIVE hostsOf(_, _)
hostsOf(connections, hosts) ==
    IF connections = <<>> THEN hosts
    ELSE hostsOf(Tail(connections),
             (IF hosts # "" THEN hosts \o "," ELSE hosts)
             \o getHost(Head(connections)) \o ":"
             \o ToString(getPort(Head(connections))))

\* database = database || connection.getAsNullableString("database")
RECURSIVE databaseOf(_, _)
databaseOf(connections, database) ==
    IF connections = <<>> THEN database
    ELSE databaseOf(Tail(connections),
             IF IsEmpty(database) THEN get(Head(connections), "database") ELSE database)

\* a prefix built from the password alone
authOf_passwordOnly(credential) ==
    IF credential = <<>> THEN ""
    ELSE IF ~IsEmpty(getPassword(credential[1]))
         THEN getUsername(credential[1]) \o ":" \o getPassword(credential[1]) \o "@"
         ELSE ""

authOf(credential) ==
    IF credential = <<>> THEN ""
    ELSE IF IsEmpty(getUsername(credential[1])) THEN ""
    ELSE IF ~IsEmpty(getPassword(credential[1]))
         THEN getUsername(credential[1]) \o ":" \o getPassword(credential[1]) \o "@"
         ELSE getUsername(credential[1]) \o "@"

\* options that keep the password
optionsOf_keepsPassword(connections, credential) ==
    remove(remove(remove(remove(
        override(mergeConfigs(connections), credential),
        "host"), "port"), "database"), "username")

optionsOf(connections, credential) ==
    remove(remove(remove(remove(remove(
        override(mergeConfigs(connections), credential),
        "host"), "port"), "database"), "username"), "password")

\* params += key, then '=' + value when the value is not null
RECURSIVE paramsOf(_, _, _)
paramsOf(options, keys, params) ==
    IF keys = <<>> THEN params
    ELSE paramsOf(options, Tail(keys),
             (IF params # "" THEN params \o "&" ELSE params)
             \o Head(keys)[1]
             \o (IF get(options, Head(keys)[1]) # NULL
                 THEN "=" \o get(options, Head(keys)[1]) ELSE ""))

query(options) ==
    IF paramsOf(options, options, "") # "" THEN "?" \o paramsOf(options, options, "")
    ELSE ""

\* database.length of a null database
composeThrows(connections) ==
    /\ firstUri(connections) = NULL
    /\ databaseOf(connections, "") = NULL

composeUri(connections, credential) ==
    IF firstUri(connections) # NULL THEN firstUri(connections)
    ELSE "mongodb://" \o authOf(credential) \o hostsOf(connections, "")
         \o (IF databaseOf(connections, "") # ""
             THEN "/" \o databaseOf(connections, "") ELSE "")
         \o query(optionsOf(connections, credential))

(***************************************************************************)
(* resolve: async.parallel over the connection lookup and the credential   *)
(* lookup. completed lists the tasks that have called back, in order;      *)
(* calls lists the invocations of the callback of resolve.                 *)
(***************************************************************************)
DiscoveryError == [code |-> "DiscoveryError"]

StoreError == [code |-> "StoreError"]

resolved(err, uri) == [err |-> err, uri |-> uri]

failed(rs) == \E i \in 1..Len(rs.completed) : rs.completed[i].err # NullObj

\* a join that reports every failing task
taskDone_reportsEach(rs, task, err) ==
    LET completed == Append(rs.completed, [task |-> task, err |-> err])
        stage == IF Len(completed) = 2 THEN "done" ELSE "running"
    IN IF err # NullObj
       THEN [rs EXCEPT !.completed = completed, !.stage = stage,
                       !.calls = Append(@, resolved(err, NULL))]
       ELSE IF Len(completed) = 2 /\ ~failed(rs)
       THEN [rs EXCEPT !.completed = completed, !.stage = stage,
                       !.calls = Append(@, resolved(NullObj,
                                    composeUri(rs.connections[1], rs.credential)))]
       ELSE [rs EXCEPT !.completed = completed, !.stage = stage]

\* a task of async.parallel calls back with err: the final callback runs on
\* the first error, or when both tasks have succeeded
taskDone(rs, task, err) ==
    LET completed == Append(rs.completed, [task |-> task, err |-> err])
        stage == IF Len(completed) = 2 THEN "done" ELSE "running"
    IN IF failed(rs)
       THEN [rs EXCEPT !.completed = completed, !.stage = stage]
       ELSE IF err # NullObj
       THEN [rs EXCEPT !.completed = completed, !.stage = stage,
                       !.calls = Append(@, resolved(err, NULL))]
       ELSE IF Len(completed) < 2
       THEN [rs EXCEPT !.completed = completed, !.stage = stage]
       ELSE IF composeThrows(rs.connections[1])
       THEN [rs EXCEPT !.completed = completed, !.stage = stage, !.thrown = TRUE]
       ELSE [rs EXCEPT !.completed = completed, !.stage = stage,
                       !.calls = Append(@, resolved(NullObj,
                                    composeUri(rs.connections[1], rs.credential)))]

\* the callback of _connectionResolver.resolveAll
resolveAllDone(rs, out) ==
    taskDone([rs EXCEPT !.connections = out.result], "connections",
             IF out.err = NullObj THEN validateConnections(out.result) ELSE out.err)

\* the callback of _credentialResolver.lookup
lookupDone(rs, out) ==
    taskDone([rs EXCEPT !.credential = out.result], "credential", out.err)

(***************************************************************************)
(* What the two lookups may yield.                                         *)
(***************************************************************************)
field(k, v) == IF v = NULL THEN <<>> ELSE <<<<k, v>>>>

descriptor(host, port, database, uri, extra) ==
    field("host", host) \o field("port", port) \o field("database", database)
    \o field("uri", uri) \o extra

HostPorts ==
    {<<NULL, NULL>>, <<"a", NULL>>, <<"a", "0">>, <<"a", "27017">>,
     <<"b", "27018">>, <<"localhost", "27017">>}

LiteralUri == "mongodb://h:1/db"

OtherUri == "mongodb://k:2/db?ssl=true"

Descriptors ==
    {descriptor(hp[1], hp[2], db, uri, <<>>) :
        hp \in HostPorts, db \in {NULL, "test"}, uri \in {NULL, LiteralUri}}
    \cup {descriptor(NULL, NULL, NULL, OtherUri, <<>>),
          descriptor("b", "27018", "other", NULL, <<>>),
          descriptor("a", "27017", "test", NULL, <<<<"ssl", "true">>>>),
          descriptor("b", "27018", "test", NULL, <<<<"w", "">>>>),
          descriptor("a", "27017", "test", "", <<>>),
          descriptor(NULL, NULL, NULL, "", <<>>)}

ConnectionLists == UNION {[1..n -> Descriptors] : n \in 0..MaxConnections}

credentialOf(username, password, extra) ==
    field("username", username) \o field("password", password) \o extra

Credentials ==
    {credentialOf(u, pw, x) :
        u \in {NULL, "u"}, pw \in {NULL, "p"},
        x \in {<<>>, <<<<"ssl", "false">>, <<"authSource", "admin">>>>}}

ResolveAllResults ==
    {[err |-> DiscoveryError, result |-> <<>>], [err |-> NullObj, result |-> <<>>]}
    \cup {[err |-> NullObj, result |-> <<l>>] : l \in ConnectionLists}

LookupResults ==
    {[err |-> StoreError, result |-> <<>>], [err |-> NullObj, result |-> <<>>]}
    \cup {[err |-> NullObj, result |-> <<c>>] : c \in Credentials}

\* the lookups of an engine: one descriptor at most and no credential store
OpenResolveAllResults ==
    {[err |-> DiscoveryError, result |-> <<>>],
     [err |-> NullObj, result |-> <<<<>>>>],
     [err |-> NullObj, result |-> <<<<descriptor("localhost", "27017", "test", NULL, <<>>)>>>>],
     [err |-> NullObj, result |-> <<<<descriptor("localhost", NULL, "test", NULL, <<>>)>>>>],
     [err |-> NullObj,
      result |-> <<<<descriptor("localhost", "27017", "test", NULL,
                                <<<<"replicaSet", "rs0">>>>)>>>>],
     [err |-> NullObj,
      result |-> <<<<descriptor(NULL, NULL, NULL, "mongodb://h:1/db?replicaSet=rs0", <<>>)>>>>],
     [err |-> NullObj,
      result |-> <<<<descriptor(NULL, NULL, NULL, "replicaSet://h:1/db", <<>>)>>>>]}

OpenLookupResults ==
    {[err |-> StoreError, result |-> <<>>], [err |-> NullObj, result |-> <<>>]}

(***************************************************************************)
(* The lifecycle calls of MongoDbPersistence. readyState is 0 when the     *)
(* connection is disconnected and 1 when it is connected.                  *)
(***************************************************************************)
isOpen(e) == e.readyState = 1

\* connection.open / openSet of the driver: a connection that is not
\* disconnected refuses to open again and stays as it is
driverOpen(readyState, fail) ==
    IF readyState # 0 THEN [readyState |-> readyState, err |-> DriverError]
    ELSE IF fail THEN [readyState |-> 0, err |-> DriverError]
    ELSE [readyState |-> 1, err |-> NullObj]

\* connection.close of the driver
driverClose(readyState, fail) ==
    IF fail THEN [readyState |-> readyState, err |-> DriverError]
    ELSE [readyState |-> 0, err |-> NullObj]

\* the configuration of the engine: a ConfigParams is a string map
DefaultConfig ==
    <<<<"collection", "">>,
      <<"options.max_pool_size", "2">>,
      <<"options.keep_alive", "1">>,
      <<"options.connect_timeout", "5000">>,
      <<"options.auto_reconnect", "true">>,
      <<"options.max_page_size", "100">>,
      <<"options.debug", "true">>,
      <<"options.replica_set", "false">>>>

\* ConfigParams.setDefaults: the defaults, overlaid with the values of the map
setDefaults(config, defaultConfigParams) == fromMaps(<<defaultConfigParams, config>>)

\* String.prototype.indexOf: the first position of t in s, from 0, or -1
stringIndexOf(s, t) ==
    LET hits == {i \in 0..(Len(s) - Len(t)) : SubSeq(s, i + 1, i + Len(t)) = t}
    IN IF hits = {} THEN -1 ELSE CHOOSE i \in hits : \A j \in hits : i <= j

\* ConfigParams.getSection: the entries under "section.", prefix removed
getSection(config, section) ==
    LET prefix == section \o "."
        under == SelectSeq(config, LAMBDA p : /\ Len(p[1]) >= Len(prefix)
                                              /\ SubSeq(p[1], 1, Len(prefix)) = prefix)
    IN [i \in 1..Len(under) |->
           <<SubSeq(under[i][1], Len(prefix) + 1, Len(under[i][1])), under[i][2]>>]

digitOf(c) ==
    CASE c = "0" -> 0 [] c = "1" -> 1 [] c = "2" -> 2 [] c = "3" -> 3 [] c = "4" -> 4
      [] c = "5" -> 5 [] c = "6" -> 6 [] c = "7" -> 7 [] c = "8" -> 8 [] c = "9" -> 9
      [] OTHER -> -1

RECURSIVE decimal(_)
decimal(v) ==
    IF Len(v) = 0 THEN 0
    ELSE 10 * decimal(SubSeq(v, 1, Len(v) - 1)) + digitOf(SubSeq(v, Len(v), Len(v)))

\* IntegerConverter.toNullableInteger over strings of digits: <<>> is null
toNullableInteger(v) ==
    IF v = NULL \/ v = "" \/ \E i \in 1..Len(v) : digitOf(SubSeq(v, i, i)) < 0 THEN <<>>
    ELSE <<decimal(v)>>

\* BooleanConverter.toNullableBoolean
toNullableBoolean(v) ==
    IF v \in {"1", "true", "t", "yes", "y"} THEN <<TRUE>>
    ELSE IF v \in {"0", "false", "f", "no", "n"} THEN <<FALSE>>
    ELSE <<>>

getAsNullableInteger(m, k) == toNullableInteger(get(m, k))

getAsNullableBoolean(m, k) == toNullableBoolean(get(m, k))

getAsBoolean(m, k) == getAsNullableBoolean(m, k) = <<TRUE>>

\* MongoDbPersistence.composeSettings
composeSettings(options) ==
    [server |->
        [poolSize |-> getAsNullableInteger(options, "max_pool_size"),
         socketOptions |->
             [keepAlive |-> getAsNullableInteger(options, "keep_alive"),
              connectTimeoutMS |-> getAsNullableInteger(options, "connect_timeout")],
         auto_reconnect |-> getAsNullableBoolean(options, "auto_reconnect"),
         max_page_size |-> getAsNullableInteger(options, "max_page_size"),
         debug |-> getAsNullableBoolean(options, "debug")]]

\* the connect call open chooses
openMethod(options, uri) ==
    LET replicaSet == getAsBoolean(options, "replica_set")
                          \/ stringIndexOf(uri, "replicaSet") > 0
    IN IF replicaSet THEN "openSet" ELSE "open"

\* a resolve callback that goes on to connect after a resolution failure
openResolved_connectsAnyway(c, options, err, uri, throws) ==
    [c EXCEPT !.stage = "connecting", !.connects = @ + 1]

\* the callback open passes to resolve; throws: the connect call throws
openResolved(c, options, err, uri, throws) ==
    IF err # NullObj
    THEN IF c.cb
         THEN [c EXCEPT !.stage = "done", !.err = err, !.calls = Append(@, err)]
         ELSE [c EXCEPT !.stage = "done", !.err = err, !.logged = Append(@, err)]
    ELSE LET connect == [c EXCEPT !.connects = @ + 1,
                                  !.method = openMethod(options, uri),
                                  !.uri = uri,
                                  !.settings = <<composeSettings(options)>>]
         IN IF throws
            THEN IF c.cb
                 THEN [connect EXCEPT
                          !.stage = "done", !.driver = "threw",
                          !.err = ConnectionException("CONNECT_FAILED", DriverError),
                          !.calls = Append(@, ConnectionException("CONNECT_FAILED", DriverError))]
                 ELSE [connect EXCEPT
                          !.stage = "done", !.driver = "threw",
                          !.err = ConnectionException("CONNECT_FAILED", DriverError),
                          !.thrown = TRUE]
            ELSE [connect EXCEPT !.stage = "connecting"]

\* a connect callback that passes the driver error on as it is
openConnected_unwrapped(e, fail) ==
    LET r == driverOpen(e.readyState, fail)
    IN [e EXCEPT !.readyState = r.readyState,
                 !.call = [@ EXCEPT !.stage = "done", !.err = r.err,
                                    !.driver = IF r.err # NullObj THEN "failed" ELSE "ok",
                                    !.calls = IF e.call.cb THEN Append(@, r.err) ELSE @]]

\* the callback open passes to the connect call
openConnected(e, fail) ==
    LET r == driverOpen(e.readyState, fail)
        err == IF r.err # NullObj THEN ConnectionException("CONNECT_FAILED", r.err)
               ELSE r.err
    IN [e EXCEPT !.readyState = r.readyState,
                 !.call = [@ EXCEPT !.stage = "done", !.err = err,
                                    !.driver = IF r.err # NullObj THEN "failed" ELSE "ok",
                                    !.calls = IF e.call.cb THEN Append(@, err) ELSE @]]

close(e, cb, fail) ==
    LET r == driverClose(e.readyState, fail)
        err == IF r.err # NullObj THEN ConnectionException("DISCONNECT_FAILED", r.err)
               ELSE r.err
    IN [e EXCEPT !.readyState = r.readyState,
                 !.call = [NoLifecycle EXCEPT !.op = "close", !.cb = cb, !.stage = "done",
                                              !.wasOpen = isOpen(e), !.err = err,
                                              !.driver = IF fail THEN "failed" ELSE "ok",
                                              !.calls = IF cb THEN <<err>> ELSE <<>>]]

CollectionNotDefined == [code |-> "Error", message |-> "Collection name is not defined"]

\* MongoDbPersistence.clear; the result is the engine and the collection
clearOf(e, d, cb, fail) ==
    LET c == [NoLifecycle EXCEPT !.op = "clear", !.cb = cb, !.stage = "done",
                                 !.wasOpen = isOpen(e), !.pre = d]
    IN IF e.collection = NULL
       THEN [engine |-> [e EXCEPT !.call = [c EXCEPT !.err = CollectionNotDefined,
                                     !.calls = IF cb THEN <<CollectionNotDefined>> ELSE <<>>]],
             docs |-> d]
       ELSE IF ~e.model
       THEN [engine |-> [e EXCEPT !.call = [c EXCEPT !.thrown = TRUE]], docs |-> d]
       ELSE LET o == clear(d, 0, cb, fail)
            IN [engine |-> [e EXCEPT !.call = [c EXCEPT !.removes = 1,
                                     !.driver = IF fail THEN "failed" ELSE "ok",
                                     !.err = IF fail
                                             THEN ConnectionException("CONNECT_FAILED", DriverError)
                                             ELSE NullObj,
                                     !.calls = IF o.called THEN <<o.err>> ELSE <<>>]],
                docs |-> o.docs]

\* MongoDbPersistence.configure with the collection name of the config
configureCollection(e, collection) ==
    LET name == IF collection = NULL THEN e.collection ELSE collection
    IN IF name # e.collection /\ e.schema
       THEN [e EXCEPT !.collection = name, !.model = TRUE]
       ELSE e

\* MongoDbPersistence.configure
configureEngine(e, config) ==
    LET withDefaults == setDefaults(config, DefaultConfig)
        bound == configureCollection(e, get(withDefaults, "collection"))
    IN [bound EXCEPT !.options = override(@, <<getSection(withDefaults, "options")>>)]

\* config.getAsIntegerWithDefault("options.max_page_size", this._maxPageSize)
configureMaxPageSize(mps, config) ==
    configure(mps, getAsNullableInteger(config, "options.max_page_size"))

(***************************************************************************)
(* Actions of resolve and of the lifecycle calls.                          *)
(***************************************************************************)
\* resolve called on its own
Resolve ==
    /\ resolver.stage = "idle"
    /\ engine.call.op = "none"
    /\ resolver' = [NoResolve EXCEPT !.stage = "running"]
    /\ UNCHANGED <<docs, gen, last, maxPageSize, page, reply, engine>>

\* a task of resolve has called back; when that runs the callback of a
\* resolve made by open, the callback of open runs in the same step
TaskCompleted(rs) ==
    /\ resolver' = rs
    /\ IF engine.call.op = "open" /\ engine.call.stage = "resolving"
          /\ Len(rs.calls) > Len(resolver.calls)
       THEN \E throws \in BOOLEAN :
                engine' = [engine EXCEPT !.call =
                    openResolved(@, engine.options, rs.calls[Len(rs.calls)].err,
                                 rs.calls[Len(rs.calls)].uri, throws)]
       ELSE UNCHANGED engine
    /\ UNCHANGED <<docs, gen, last, maxPageSize, page, reply>>

ConnectionsResolved ==
    /\ resolver.stage = "running"
    /\ \A i \in 1..Len(resolver.completed) : resolver.completed[i].task # "connections"
    /\ \E out \in (IF engine.call.op = "open" THEN OpenResolveAllResults
                   ELSE ResolveAllResults) :
           TaskCompleted(resolveAllDone(resolver, out))

CredentialLookedUp ==
    /\ resolver.stage = "running"
    /\ \A i \in 1..Len(resolver.completed) : resolver.completed[i].task # "credential"
    /\ \E out \in (IF engine.call.op = "open" THEN OpenLookupResults
                   ELSE LookupResults) :
           TaskCompleted(lookupDone(resolver, out))

\* the callbacks have returned: the call is over
ResolveReturned ==
    /\ resolver.stage = "done"
    /\ engine.call.op = "none"
    /\ resolver' = NoResolve
    /\ UNCHANGED <<docs, gen, last, maxPageSize, page, reply, engine>>

NextResolve ==
    \/ Resolve
    \/ ConnectionsResolved
    \/ CredentialLookedUp
    \/ ResolveReturned

SpecResolve == Init /\ [][NextResolve]_vars

Open ==
    /\ engine.call.op = "none"
    /\ resolver.stage = "idle"
    /\ \E cb \in BOOLEAN :
           engine' = [engine EXCEPT !.call =
               [NoLifecycle EXCEPT !.op = "open", !.cb = cb, !.stage = "resolving",
                                   !.wasOpen = isOpen(engine)]]
    /\ resolver' = [NoResolve EXCEPT !.stage = "running"]
    /\ UNCHANGED <<docs, gen, last, maxPageSize, page, reply>>

Connected ==
    /\ engine.call.op = "open"
    /\ engine.call.stage = "connecting"
    /\ \E fail \in BOOLEAN : engine' = openConnected(engine, fail)
    /\ UNCHANGED <<docs, gen, last, maxPageSize, page, reply, resolver>>

Close ==
    /\ engine.call.op = "none"
    /\ \E cb \in BOOLEAN, fail \in BOOLEAN : engine' = close(engine, cb, fail)
    /\ UNCHANGED <<docs, gen, last, maxPageSize, page, reply, resolver>>

ClearEngine ==
    /\ engine.call.op = "none"
    /\ \E cb \in BOOLEAN, fail \in BOOLEAN :
           LET o == clearOf(engine, docs, cb, fail)
           IN /\ engine' = o.engine
              /\ docs' = o.docs
    /\ UNCHANGED <<gen, last, maxPageSize, page, reply, resolver>>

CollectionNames == {NULL, "s:dummies"}

\* the options a configuration gives: none, one option, or two
OptionConfigs ==
    {<<>>,
     <<<<"options.max_pool_size", "10">>>>,
     <<<<"options.keep_alive", "0">>>>,
     <<<<"options.connect_timeout", "1000">>>>,
     <<<<"options.auto_reconnect", "false">>>>,
     <<<<"options.max_page_size", "1">>>>,
     <<<<"options.max_page_size", "2">>>>,
     <<<<"options.debug", "false">>>>,
     <<<<"options.replica_set", "true">>>>,
     <<<<"options.max_page_size", "2">>, <<"options.replica_set", "true">>>>}

Configs ==
    {(IF collection = NULL THEN <<>> ELSE <<<<"collection", collection>>>>) \o options :
        collection \in CollectionNames, options \in OptionConfigs}

\* configure of the engine: MongoDbPersistence.configure and, in an
\* IdentifiableMongoDbPersistence, the max page size
ConfigureEngine ==
    /\ engine.call.op = "none"
    /\ \E config \in Configs :
           /\ engine' = configureEngine(engine, config)
           /\ maxPageSize' = IF engine.identifiable
                             THEN configureMaxPageSize(maxPageSize, config)
                             ELSE maxPageSize
    /\ UNCHANGED <<docs, gen, last, page, reply, resolver>>

\* another client of the database stores a document
Inserted ==
    /\ engine.call.op = "none"
    /\ Len(docs) < MaxDocs
    /\ \E key \in FieldValues("key") :
           docs' = Append(docs, withId([f \in {"key"} |-> key], nextLong(Len(docs))))
    /\ UNCHANGED <<gen, last, maxPageSize, page, reply, resolver, engine>>

\* the callbacks have returned: the lifecycle call is over
LifecycleReturned ==
    /\ engine.call.stage = "done"
    /\ resolver.stage \in {"idle", "done"}
    /\ engine' = [engine EXCEPT !.call = NoLifecycle]
    /\ resolver' = NoResolve
    /\ UNCHANGED <<docs, gen, last, maxPageSize, page, reply>>

InitEngine ==
    /\ docs = <<>>
    /\ gen = 0
    /\ last = NoCall
    /\ maxPageSize = DefaultMaxPageSize
    /\ page = NoPage
    /\ reply = <<>>
    /\ resolver = NoResolve
    /\ \E collection \in CollectionNames, schema \in BOOLEAN :
           engine = Constructed(collection, schema)

NextEngine ==
    \/ Open
    \/ ConnectionsResolved
    \/ CredentialLookedUp
    \/ Connected
    \/ Close
    \/ ClearEngine
    \/ ConfigureEngine
    \/ Inserted
    \/ LifecycleReturned

SpecEngine == InitEngine /\ [][NextEngine]_vars

(***************************************************************************)
(* Claims about resolve, checked under SpecResolve. The expected values    *)
(* are written over the stored pairs of the descriptors.                   *)
(***************************************************************************)
Conns == resolver.connections[1]

Succeeded == Len(resolver.calls) > 0 /\ resolver.calls[1].err = NullObj

Uri == resolver.calls[1].uri

TaskErr(task) ==
    resolver.completed[CHOOSE i \in 1..Len(resolver.completed) :
                           resolver.completed[i].task = task].err

TaskDone(task) ==
    \E i \in 1..Len(resolver.completed) : resolver.completed[i].task = task

Stored(m, k) == m[CHOOSE i \in 1..Len(m) : m[i][1] = k][2]

Has(m, k) == \E i \in 1..Len(m) : m[i][1] = k /\ m[i][2] # ""

NoLiteralUri(cs) == \A i \in 1..Len(cs) : ~Has(cs[i], "uri")

RECURSIVE JoinHostPorts(_)
JoinHostPorts(cs) ==
    IF Len(cs) = 0 THEN ""
    ELSE IF Len(cs) = 1 THEN Stored(cs[1], "host") \o ":" \o Stored(cs[1], "port")
    ELSE JoinHostPorts(SubSeq(cs, 1, Len(cs) - 1)) \o ","
         \o Stored(cs[Len(cs)], "host") \o ":" \o Stored(cs[Len(cs)], "port")

FirstDatabase(cs) ==
    Stored(cs[CHOOSE i \in 1..Len(cs) :
                  /\ Has(cs[i], "database")
                  /\ \A j \in 1..(i - 1) : ~Has(cs[j], "database")], "database")

\* C11: for descriptors without a literal uri, resolve returns 'mongodb://' +
\* auth + hosts + database + params, hosts being 'host:port' of every descriptor
\* joined by commas in descriptor order and database '/' + the first non-null
\* database; localhost/27017/test alone gives 'mongodb://localhost:27017/test'.
C11_ComposedFromDescriptors ==
    /\ (Succeeded /\ NoLiteralUri(Conns)) =>
           Uri = "mongodb://" \o authOf(resolver.credential) \o JoinHostPorts(Conns)
                 \o "/" \o FirstDatabase(Conns)
                 \o query(optionsOf(Conns, resolver.credential))
    /\ (/\ Succeeded
        /\ Conns = <<descriptor("localhost", "27017", "test", NULL, <<>>)>>
        /\ resolver.credential = <<>>) =>
           Uri = "mongodb://localhost:27017/test"

C11_Witness ==
    /\ Succeeded
    /\ Conns = <<descriptor("b", "27018", "other", NULL, <<>>),
                 descriptor("a", "27017", "test", NULL, <<>>)>>
    /\ resolver.credential = <<>>
    /\ Uri = "mongodb://b:27018,a:27017/other"

Prefix(credential) ==
    IF credential = <<>> THEN ""
    ELSE IF ~Has(credential[1], "username") THEN ""
    ELSE IF Has(credential[1], "password")
         THEN Stored(credential[1], "username") \o ":"
              \o Stored(credential[1], "password") \o "@"
         ELSE Stored(credential[1], "username") \o "@"

\* C12: the composed uri has 'username:password@' right before the hosts when
\* the credential has both, 'username@' when it has no password, and no prefix
\* without a credential or a username; a:27017 and b:27018 with database test
\* and u/p give 'mongodb://u:p@a:27017,b:27018/test'.
C12_AuthenticationPrefix ==
    /\ (Succeeded /\ NoLiteralUri(Conns)) =>
           Uri = "mongodb://" \o Prefix(resolver.credential) \o JoinHostPorts(Conns)
                 \o "/" \o FirstDatabase(Conns)
                 \o query(optionsOf(Conns, resolver.credential))
    /\ (/\ Succeeded
        /\ Conns = <<descriptor("a", "27017", "test", NULL, <<>>),
                     descriptor("b", "27018", "test", NULL, <<>>)>>
        /\ resolver.credential = <<credentialOf("u", "p", <<>>)>>) =>
           Uri = "mongodb://u:p@a:27017,b:27018/test"

C12_Witness ==
    /\ Succeeded
    /\ Conns = <<descriptor("a", "27017", "test", NULL, <<>>),
                 descriptor("b", "27018", "test", NULL, <<>>)>>
    /\ resolver.credential = <<credentialOf("u", "p", <<>>)>>
    /\ Uri = "mongodb://u:p@a:27017,b:27018/test"

Invalid(c) ==
    /\ ~Has(c, "uri")
    /\ \/ ~Has(c, "host")
       \/ ~Has(c, "port")
       \/ Stored(c, "port") = "0"
       \/ ~Has(c, "database")

ExpectedCode(c) ==
    IF ~Has(c, "host") THEN "NO_HOST"
    ELSE IF ~Has(c, "port") \/ Stored(c, "port") = "0" THEN "NO_PORT"
    ELSE "NO_DATABASE"

ExpectedError(cs) ==
    IF \A i \in 1..Len(cs) : ~Invalid(cs[i]) THEN NullObj
    ELSE ConfigException(ExpectedCode(
             cs[CHOOSE i \in 1..Len(cs) :
                    Invalid(cs[i]) /\ \A j \in 1..(i - 1) : ~Invalid(cs[j])]))

C14_NoConnection ==
    (/\ TaskDone("connections")
     /\ TaskErr("connections") # DiscoveryError
     /\ (resolver.connections = <<>> \/ Len(Conns) = 0)) =>
        /\ TaskErr("connections") = ConfigException("NO_CONNECTION")
        /\ Len(resolver.calls) = 1
        /\ resolver.calls[1].uri = NULL
        /\ resolver.calls[1].err \in {ConfigException("NO_CONNECTION"), StoreError}

C14_Witness ==
    /\ resolver.stage = "done"
    /\ resolver.connections = <<<<>>>>
    /\ resolver.credential = <<credentialOf("u", "p", <<>>)>>
    /\ resolver.completed[1].task = "credential"
    /\ resolver.calls = <<resolved(ConfigException("NO_CONNECTION"), NULL)>>

FirstLiteral(cs) ==
    Stored(cs[CHOOSE i \in 1..Len(cs) :
                  Has(cs[i], "uri") /\ \A j \in 1..(i - 1) : ~Has(cs[j], "uri")], "uri")

LookupsSucceeded ==
    /\ resolver.stage = "done"
    /\ resolver.connections # <<>>
    /\ TaskErr("credential") = NullObj

\* C15 as stated: if any descriptor carries a literal uri, resolve returns the
\* first such uri unmodified.
C15_LiteralUriReturned ==
    (LookupsSucceeded /\ ~NoLiteralUri(Conns)) =>
        resolver.calls = <<resolved(NullObj, FirstLiteral(Conns))>>

\* C15: if a descriptor carries a literal uri and every descriptor without one
\* passes validation, resolve returns the first literal uri unmodified;
\* otherwise it fails with the validation error of the first invalid descriptor.
C15_LiteralUriOfValidList ==
    (LookupsSucceeded /\ ~NoLiteralUri(Conns)) =>
        resolver.calls =
            IF \A i \in 1..Len(Conns) : ~Invalid(Conns[i])
            THEN <<resolved(NullObj, FirstLiteral(Conns))>>
            ELSE <<resolved(ExpectedError(Conns), NULL)>>

C15_Witness ==
    /\ LookupsSucceeded
    /\ Conns = <<descriptor("b", "27018", "test", LiteralUri, <<>>),
                 descriptor(NULL, NULL, NULL, OtherUri, <<>>)>>
    /\ resolver.credential = <<credentialOf("u", "p", <<>>)>>
    /\ resolver.calls = <<resolved(NullObj, LiteralUri)>>

\* all pairs of the descriptors and then of the credential
RECURSIVE Flatten(_)
Flatten(maps) ==
    IF Len(maps) = 0 THEN <<>>
    ELSE Flatten(SubSeq(maps, 1, Len(maps) - 1)) \o maps[Len(maps)]

AllPairs == Flatten(Conns \o resolver.credential)

Stripped == {"host", "port", "database", "username", "password"}

\* the positions that introduce a key of the query string
QueryKeys ==
    SelectSeq([i \in 1..Len(AllPairs) |-> i],
              LAMBDA i : /\ AllPairs[i][1] \notin Stripped
                         /\ \A j \in 1..(i - 1) : AllPairs[j][1] # AllPairs[i][1])

\* the value of the last pair with the key: a later descriptor wins over an
\* earlier one and the credential over all
MergedValue(k) ==
    AllPairs[CHOOSE i \in 1..Len(AllPairs) :
                 /\ AllPairs[i][1] = k
                 /\ \A j \in (i + 1)..Len(AllPairs) : AllPairs[j][1] # k][2]

RECURSIVE JoinPairs(_, _)
JoinPairs(n, bare) ==
    IF n = 0 THEN ""
    ELSE (IF n = 1 THEN "?" ELSE JoinPairs(n - 1, bare) \o "&")
         \o AllPairs[QueryKeys[n]][1]
         \o (IF bare /\ MergedValue(AllPairs[QueryKeys[n]][1]) = "" THEN ""
             ELSE "=" \o MergedValue(AllPairs[QueryKeys[n]][1]))

Base ==
    "mongodb://" \o Prefix(resolver.credential) \o JoinHostPorts(Conns)
    \o "/" \o FirstDatabase(Conns)

\* C16 as stated: the query string holds the keys of the merged map of the
\* descriptors and the credential (the credential wins) minus host, port,
\* database, username and password, each as 'key=value', joined by '&' after
\* '?', and is empty when no key remains.
C16_QueryOfPairs ==
    (Succeeded /\ NoLiteralUri(Conns)) =>
        Uri = Base \o JoinPairs(Len(QueryKeys), FALSE)

\* C16: as above, with a key whose merged value is null or empty appearing as
\* the bare key, without '='.
C16_QueryOfPairsAndBareKeys ==
    (Succeeded /\ NoLiteralUri(Conns)) =>
        Uri = Base \o JoinPairs(Len(QueryKeys), TRUE)

C16_Witness ==
    /\ Succeeded
    /\ Conns = <<descriptor("a", "27017", "test", NULL, <<<<"ssl", "true">>>>),
                 descriptor("b", "27018", "test", NULL, <<<<"w", "">>>>)>>
    /\ resolver.credential =
           <<credentialOf("u", NULL, <<<<"ssl", "false">>, <<"authSource", "admin">>>>)>>
    /\ Uri = "mongodb://u@a:27017,b:27018/test?ssl=false&w&authSource=admin"

\* C17: under every interleaving of the two lookups the callback of resolve is
\* invoked exactly once: with the error of the first lookup to fail and a null
\* uri, or with a uri once both lookups have completed successfully.
C17_CallbackOnce ==
    /\ Len(resolver.calls) <= 1
    /\ ~resolver.thrown
    /\ resolver.stage = "done" => Len(resolver.calls) = 1
    /\ failed(resolver) =>
           resolver.calls =
               <<resolved(resolver.completed[CHOOSE i \in 1..Len(resolver.completed) :
                              /\ resolver.completed[i].err # NullObj
                              /\ \A j \in 1..(i - 1) : resolver.completed[j].err = NullObj].err,
                          NULL)>>
    /\ (Len(resolver.calls) = 1 /\ ~failed(resolver)) =>
           /\ Len(resolver.completed) = 2
           /\ resolver.calls[1].err = NullObj
           /\ resolver.calls[1].uri # NULL
    /\ (Len(resolver.completed) < 2 /\ ~failed(resolver)) => resolver.calls = <<>>

C17_Witness ==
    /\ resolver.stage = "done"
    /\ resolver.completed = <<[task |-> "credential", err |-> StoreError],
                              [task |-> "connections", err |-> ConfigException("NO_HOST")]>>
    /\ resolver.calls = <<resolved(StoreError, NULL)>>

(***************************************************************************)
(* Claims about the lifecycle calls, checked under SpecEngine.             *)
(***************************************************************************)
OpenDone == engine.call.op = "open" /\ engine.call.stage = "done"

ResolutionFailed == resolver.calls # <<>> /\ resolver.calls[1].err # NullObj

\* what the caller or, without a callback, the logger gets on a resolution failure
Surfaced(err) ==
    IF engine.call.cb
    THEN engine.call.calls = <<err>> /\ engine.call.logged = <<>>
    ELSE engine.call.calls = <<>> /\ engine.call.logged = <<err>>

\* C18 as stated: after an open call that completes with an error the engine
\* is not open and no retry was made; on a resolution failure no connect call
\* is issued and the error goes to the callback, or to the logger without one.
C18_OpenFailureLeavesClosed ==
    /\ (OpenDone /\ engine.call.err # NullObj) =>
           ~isOpen(engine) /\ engine.call.connects <= 1
    /\ (OpenDone /\ ResolutionFailed) =>
           engine.call.connects = 0 /\ Surfaced(resolver.calls[1].err)

\* C18: an open call that completes with an error leaves the open state of
\* the engine as it was before the call (not open, unless the engine was open
\* already) and makes no retry; on a resolution failure no connect call is
\* issued and the error goes to the callback, or to the logger without one.
C18_OpenFailureKeepsState ==
    /\ (OpenDone /\ engine.call.err # NullObj) =>
           /\ isOpen(engine) = engine.call.wasOpen
           /\ engine.call.connects <= 1
    /\ (OpenDone /\ ResolutionFailed) =>
           engine.call.connects = 0 /\ Surfaced(resolver.calls[1].err)

C18_Witness ==
    /\ OpenDone
    /\ ~engine.call.cb
    /\ ~engine.call.wasOpen
    /\ ~isOpen(engine)
    /\ engine.call.connects = 0
    /\ engine.call.logged = <<ConfigException("NO_PORT")>>

\* C19: a driver connect failure during open is reported as a CONNECT_FAILED
\* connection error whose cause is the driver error, a driver disconnect
\* failure during close as a DISCONNECT_FAILED connection error whose cause is
\* the driver error; on driver success both report no error.
C19_DriverFailuresWrapped ==
    (engine.call.stage = "done" /\ engine.call.cb /\ engine.call.driver # "none") =>
        /\ engine.call.op = "open" =>
               engine.call.calls =
                   IF engine.call.driver = "ok" THEN <<NullObj>>
                   ELSE <<ConnectionException("CONNECT_FAILED", DriverError)>>
        /\ engine.call.op = "close" =>
               engine.call.calls =
                   IF engine.call.driver = "ok" THEN <<NullObj>>
                   ELSE <<ConnectionException("DISCONNECT_FAILED", DriverError)>>

C19_Witness ==
    /\ OpenDone
    /\ engine.call.cb
    /\ ~engine.call.wasOpen
    /\ engine.call.driver = "failed"
    /\ engine.call.calls = <<ConnectionException("CONNECT_FAILED", DriverError)>>

\* C20 as stated: clear fails at once with 'collection not defined', without a
\* driver call or a change of the data, when no collection is bound; otherwise
\* it removes every document of the collection, and a driver failure is
\* reported as a CONNECT_FAILED connection error with the driver error as cause.
C20_ClearRemovesAll ==
    (engine.call.op = "clear" /\ engine.call.stage = "done") =>
        /\ ~engine.call.thrown
        /\ IF engine.collection = NULL
           THEN /\ engine.call.removes = 0
                /\ docs = engine.call.pre
                /\ engine.call.cb => engine.call.calls = <<CollectionNotDefined>>
           ELSE /\ engine.call.removes = 1
                /\ engine.call.driver = "ok" =>
                       /\ docs = <<>>
                       /\ \A filter \in Filters : find(docs, filter) = <<>>
                       /\ engine.call.cb => engine.call.calls = <<NullObj>>
                /\ (engine.call.driver = "failed" /\ engine.call.cb) =>
                       engine.call.calls =
                           <<ConnectionException("CONNECT_FAILED", DriverError)>>

(***************************************************************************)
(* The CRUD calls with or without a callback, over a driver that may fail. *)
(***************************************************************************)
CallEntities == PageEntities \cup {NullObj}

CallCreate ==
    \E item \in CallEntities, cb \in BOOLEAN, fail \in BOOLEAN :
        Complete("create", item, NULL, NullObj, cb, fail, create(docs, gen, item, cb, fail))

CallSet ==
    \E item \in CallEntities, cb \in BOOLEAN, fail \in BOOLEAN :
        Complete("set", item, NULL, NullObj, cb, fail, set(docs, gen, item, cb, fail))

CallUpdate ==
    \E item \in CallEntities, cb \in BOOLEAN, fail \in BOOLEAN :
        Complete("update", item, NULL, NullObj, cb, fail, update(docs, gen, item, cb, fail))

CallUpdatePartially ==
    \E id \in KnownIds, data \in {p \in PartialData : "content" \notin DOMAIN p} \cup {NullObj},
       cb \in BOOLEAN, fail \in BOOLEAN :
        Complete("updatePartially", NullObj, id, data, cb, fail,
                 updatePartially(docs, gen, id, data, cb, fail))

CallDeleteById ==
    \E id \in KnownIds, cb \in BOOLEAN, fail \in BOOLEAN :
        Complete("deleteById", NullObj, id, NullObj, cb, fail,
                 deleteById(docs, gen, id, cb, fail))

CallDeleteByFilter ==
    \E filter \in Filters, cb \in BOOLEAN, fail \in BOOLEAN :
        Complete("deleteByFilter", NullObj, NULL, filter, cb, fail,
                 deleteByFilter(docs, gen, filter, cb, fail))

CallClear ==
    \E cb \in BOOLEAN, fail \in BOOLEAN :
        Complete("clear", NullObj, NULL, NullObj, cb, fail, clear(docs, gen, cb, fail))

CallGetOneById ==
    \E id \in KnownIds, fail \in BOOLEAN :
        Complete("getOneById", NullObj, id, NullObj, TRUE, fail,
                 getOneById(docs, gen, id, fail))

NextCalls ==
    \/ CallCreate
    \/ CallSet
    \/ CallUpdate
    \/ CallUpdatePartially
    \/ CallDeleteById
    \/ CallDeleteByFilter
    \/ CallClear
    \/ CallGetOneById

SpecCalls == Init /\ [][NextCalls]_vars

(***************************************************************************)
(* Claims about failures and null inputs, checked under SpecCalls.         *)
(***************************************************************************)
\* C21 as stated: for every operation and every input, null items or ids and
\* absent callbacks included, a failure is delivered through the callback and
\* nothing is thrown to the caller.
C21_NothingThrown ==
    last.op # "none" =>
        /\ ~last.thrown
        /\ (last.fail /\ last.driver = 1 /\ last.cb) =>
               last.called /\ last.err # NullObj

NullInput ==
    \/ last.op \in {"create", "set", "update"} /\ last.item = NullObj
    \/ last.op = "update" /\ last.item # NullObj /\ last.item["id"] = NULL
    \/ last.op = "updatePartially" /\ (last.id = NULL \/ last.data = NullObj)

\* C22: a null entity passed to create, set or update, a null id in the entity
\* passed to update, and a null id or null data passed to updatePartially are
\* not errors: no driver call is issued, the collection is unchanged, and the
\* callback gets success with a null result.
C22_NullInputsAreNoops ==
    NullInput =>
        /\ last.driver = 0
        /\ docs = last.pre
        /\ last.cb => /\ last.called
                      /\ last.err = NullObj
                      /\ last.result = NullObj
                      /\ ~last.thrown

C22_Witness ==
    /\ last.op = "update"
    /\ last.item # NullObj
    /\ last.item["id"] = NULL
    /\ last.cb
    /\ last.fail
    /\ Len(docs) = 2
    /\ last.called
    /\ last.err = NullObj
    /\ last.result = NullObj

(***************************************************************************)
(* The queries of a getPageByFilter call, checked under SpecPage.          *)
(***************************************************************************)
\* C23: the count query of a getPageByFilter call is issued only once the
\* page query has completed without error: not while the page query is in
\* flight, not when it failed, and not when no total was asked for, so
\* that a call without total issues the page query alone.
C23_CountAfterPageQuery ==
    /\ page.stage = "find" => page.queries = <<"find">>
    /\ page.stage = "count" => page.queries = <<"find", "count">> /\ page.total
    /\ page.stage = "done" =>
           page.queries = IF page.total /\ page.fault # "find"
                          THEN <<"find", "count">> ELSE <<"find">>

\* a call that asked for the total and whose page query failed
C23_Witness ==
    /\ page.stage = "done"
    /\ page.total
    /\ page.fault = "find"
    /\ page.queries = <<"find">>
    /\ Len(reply) = 1
    /\ Len(docs) = 2

\* C28: the page a getPageByFilter call with total hands to its callback
\* never holds more items than the total it reports, whatever other calls
\* run while the call is in progress.
C28_ItemsWithinTotal ==
    (page.stage = "done" /\ page.total /\ page.fault = "none") =>
        Len(reply[1].page.data) <= reply[1].page.total[1]

(***************************************************************************)
(* getOneRandom: a count query, then a page query of one document at a     *)
(* random offset, with the calls of other callers running in between.      *)
(* The page variable holds the call in progress: its filter, the count     *)
(* read, the offset drawn and which query failed.                          *)
(***************************************************************************)
\* _.random(lower, upper): the integers the call can return; the bounds are
\* swapped when lower > upper
random(lower, upper) == IF lower > upper THEN upper..lower ELSE lower..upper

\* callback(err, item)
answered(err, item) == [err |-> err, item |-> item]

\* the call up to _model.count(filter, ...)
getOneRandom(filter) ==
    [stage |-> "randomCount", filter |-> filter, count |-> 0, pos |-> 0, fault |-> "none"]

\* the callback of the count query: an error goes to the callback, else
\* the offset pos drawn from _.random(0, count - 1) is kept and the page
\* query is issued
randomCount(d, pg, rp, fail, pos) ==
    LET c == execCount(d, pg.filter, fail)
    IN IF c.err # NullObj
       THEN [page |-> [pg EXCEPT !.stage = "done", !.fault = "count"],
             reply |-> Append(rp, answered(c.err, NullObj))]
       ELSE [page |-> [pg EXCEPT !.stage = "randomFind", !.count = c.count, !.pos = pos],
             reply |-> rp]

\* the callback of find(filter).skip(pos >= 0 ? pos : 0).limit(1).exec
randomFind(d, pg, rp, fail) ==
    LET q == execFind(d, pg.filter, IF pg.pos >= 0 THEN pg.pos ELSE 0, 1, fail)
        item == IF Len(q.items) > 0 THEN q.items[1] ELSE NullObj
    IN [page |-> [pg EXCEPT !.stage = "done",
                            !.fault = IF q.err # NullObj THEN "find" ELSE "none"],
        reply |-> Append(rp, answered(q.err, convertToPublic(item)))]

GetOneRandom ==
    /\ page.stage = "idle"
    /\ \E filter \in Filters : page' = getOneRandom(filter)
    /\ reply' = <<>>
    /\ UNCHANGED <<docs, gen, last, maxPageSize, resolver, engine>>

RandomCounted ==
    /\ page.stage = "randomCount"
    /\ \E fail \in BOOLEAN :
           \E pos \in random(0, execCount(docs, page.filter, fail).count - 1) :
               LET o == randomCount(docs, page, reply, fail, pos)
               IN /\ page' = o.page
                  /\ reply' = o.reply
    /\ UNCHANGED <<docs, gen, last, maxPageSize, resolver, engine>>

RandomFetched ==
    /\ page.stage = "randomFind"
    /\ \E fail \in BOOLEAN :
           LET o == randomFind(docs, page, reply, fail)
           IN /\ page' = o.page
              /\ reply' = o.reply
    /\ UNCHANGED <<docs, gen, last, maxPageSize, resolver, engine>>

NextRandom ==
    \/ GetOneRandom
    \/ RandomCounted
    \/ RandomFetched
    \/ PageReturned
    \/ ConcurrentCreate
    \/ ConcurrentSet
    \/ ConcurrentDeleteById
    \/ ConcurrentDeleteByFilter
    \/ ConcurrentClear

SpecRandom == Init /\ [][NextRandom]_vars

\* C25: a getOneRandom call that completes without error hands its
\* callback a stored document that matches the filter whenever at least
\* one stored document matches, and null only when none matches.
C25_RandomReturnsMatch ==
    (page.stage = "done" /\ page.fault = "none") =>
        /\ Len(reply) = 1
        /\ reply[1].err = NullObj
        /\ reply[1].item # NullObj =>
               \E j \in 1..Len(docs) : /\ matches(docs[j], page.filter)
                                       /\ reply[1].item = convertToPublic(docs[j])
        /\ Matching(page.filter) >= 1 => reply[1].item # NullObj

(***************************************************************************)
(* Claims about the configuration and the connect call of open, checked    *)
(* under SpecEngine.                                                       *)
(***************************************************************************)
\* t occurs in s at some position
Contains(s, t) == \E i \in 1..(Len(s) - Len(t) + 1) : SubSeq(s, i, i + Len(t) - 1) = t

ResolutionSucceeded == resolver.calls # <<>> /\ resolver.calls[1].err = NullObj

\* C24: open issues exactly one connect call per successful resolution and
\* none otherwise; the call is the cluster-aware one (openSet) exactly when
\* options.replica_set is true or the resolved URI contains the text
\* "replicaSet" anywhere in it, and the single-node one (open) otherwise.
C24_ConnectMethodByReplicaSet ==
    engine.call.op = "open" =>
        /\ engine.call.connects = IF ResolutionSucceeded THEN 1 ELSE 0
        /\ engine.call.connects = 0 => engine.call.method = "none"
        /\ engine.call.connects = 1 =>
               engine.call.method =
                   IF getAsBoolean(engine.options, "replica_set")
                          \/ Contains(engine.call.uri, "replicaSet")
                   THEN "openSet" ELSE "open"

\* C26: once configure has been called, the max page size getPageByFilter
\* applies is the max_page_size of the settings open hands to the driver.
C26_MaxPageSizeIsDriverSetting ==
    (engine.options # <<>> /\ engine.identifiable) =>
        composeSettings(engine.options).server.max_page_size = <<maxPageSize>>

OptionNames ==
    {"max_pool_size", "keep_alive", "connect_timeout", "auto_reconnect",
     "max_page_size", "debug", "replica_set"}

\* C27: a configure call leaves every option its config does not mention,
\* and that the engine already has a value for, at that value.
C27_UnmentionedOptionsKept ==
    [][\A config \in Configs :
          (engine.call.op = "none" /\ engine' = configureEngine(engine, config)) =>
              \A k \in OptionNames :
                  (~hasKey(config, "options." \o k) /\ hasKey(engine.options, k)) =>
                      get(engine'.options, k) = get(engine.options, k)]_vars

(***************************************************************************)
(* Claims about what a successful resolve returns, checked under           *)
(* SpecResolve.                                                            *)
(***************************************************************************)
\* C29: when resolve succeeds, the URI is the first literal uri of the
\* descriptors, unchanged, or it is composed of descriptors that each have a
\* host, a port other than 0 and a database, a uri entry without a value
\* counting as no uri: the URI starts with 'mongodb://' + auth + the
\* host:port list + '/' + database.
C29_ComposedFromValidated ==
    Succeeded =>
        IF \E i \in 1..Len(Conns) : Has(Conns[i], "uri")
        THEN Uri = FirstLiteral(Conns)
        ELSE /\ Len(Conns) >= 1
             /\ \A i \in 1..Len(Conns) :
                    /\ Has(Conns[i], "host")
                    /\ Has(Conns[i], "port")
                    /\ Stored(Conns[i], "port") # "0"
                    /\ Has(Conns[i], "database")
             /\ Len(Uri) >= Len(Base)
             /\ SubSeq(Uri, 1, Len(Base)) = Base

\* a URI composed of two descriptors, the first with a uri entry without value
C29_Witness ==
    /\ Succeeded
    /\ Len(Conns) = 2
    /\ hasKey(Conns[1], "uri")
    /\ ~Has(Conns[1], "uri")
    /\ ~hasKey(Conns[2], "uri")
    /\ resolver.credential = <<>>
    /\ Uri = "mongodb://a:27017,b:27018/test?uri"

\* the credential with another password, or with none
withPassword(credential, password) ==
    IF password = NULL THEN remove(credential, "password")
    ELSE put(credential, "password", password)

OtherPasswords == {NULL, "p", "q"}

\* s without its first n characters
After(s, n) == SubSeq(s, n + 1, Len(s))

\* C30: the password of the credential shows in the URI only inside the
\* authentication prefix: a resolve over the same descriptors and a
\* credential that differs in its password alone gives a URI that is the
\* same after 'mongodb://' and the prefix, and the very same URI when the
\* credential has no username or a descriptor has a literal uri.
C30_PasswordOnlyInPrefix ==
    (Succeeded /\ resolver.credential # <<>>) =>
        \A password \in OtherPasswords :
            LET other == <<withPassword(resolver.credential[1], password)>>
                uri == composeUri(Conns, other)
            IN IF (\E i \in 1..Len(Conns) : Has(Conns[i], "uri"))
                      \/ ~Has(resolver.credential[1], "username")
               THEN uri = Uri
               ELSE /\ SubSeq(uri, 1, Len("mongodb://" \o Prefix(other)))
                           = "mongodb://" \o Prefix(other)
                    /\ After(uri, Len("mongodb://" \o Prefix(other)))
                           = After(Uri, Len("mongodb://" \o Prefix(resolver.credential)))

\* a URI with a password in its prefix and a query string of its own
C30_Witness ==
    /\ Succeeded
    /\ Len(Conns) = 2
    /\ resolver.credential # <<>>
    /\ Has(resolver.credential[1], "username")
    /\ Has(resolver.credential[1], "password")
    /\ Len(resolver.credential[1]) = 4
    /\ Uri = "mongodb://u:p@a:27017,b:27018/test?ssl=false&authSource=admin"

====
